---- MODULE Spec2Model ----
(***************************************************************************)
(* BatchQueue (src/batching/batchqueue.py): a FIFO of (request, id) pairs, *)
(* a registry of callbacks by request id, a completion counter that calls  *)
(* execute() again when it reaches quota, and the rate_limited decorator   *)
(* wrapped around execute().                                               *)
(*                                                                         *)
(* The transport (BatchHttpRequest) is the environment: a submitted batch  *)
(* is in flight until the transport hands each of its items to call_back,  *)
(* once, in any order.  batch.execute() may call call_back before it       *)
(* returns (the synchronous library) or after it has returned, so an       *)
(* execute() that is inside batch.execute() is a frame of `stack`, and     *)
(* call_back can re-enter execute() on top of it.                          *)
(***************************************************************************)
EXTENDS Integers, Sequences, FiniteSets, TLC

\* ---------------------------------------------------------------- bounds
MaxAdds == 3          \* add() calls per behaviour
MaxQuota == 2         \* BatchQueue(quota) is drawn from 1..MaxQuota
MaxFlushes == 2       \* execute() calls made by the producer
MaxClock == 1         \* the clock advances on its own (Tick) up to MaxClock; sleeps go beyond
MaxUserIds == 1       \* caller-supplied request ids are 1..MaxUserIds
TicksPerSecond == 2   \* resolution of the clock
NumThreads == 2       \* threads that run execute() and call_back concurrently

\* ------------------------------------------------------------- constants
MaxPerSecond == 1     \* @rate_limited(1)
None == 0             \* request_id=None, and the value of a bare return
UuidBase == 100       \* generated ids are UuidBase + 1, UuidBase + 2, ...

VARIABLES
  quota,              \* self.quota
  call_backs,         \* self.call_backs: request id -> callback
  queue,              \* self.queue: sequence of <<request, request_id>>
  count,              \* self.count
  last_time_called,   \* last_time_called[0] of the decorator's closure
  clock,              \* time.clock()
  uuids,              \* number of ids uuid.uuid4() has produced
  inflight,           \* items submitted to the transport, response not yet delivered
  stack,              \* active calls: execute() inside batch.execute(), call_back inside execute()
  added,              \* history: the add() calls, in order
  log,                \* history: batches submitted and callbacks invoked, in order
  responses,          \* history: number of calls of call_back
  add_ret,            \* value returned by the last add()
  adding,             \* an add() between its two statements: the pending <<request, request_id>>
  thr,                \* threads running execute() or call_back statement by statement
  flushesB,           \* history: the execute() calls on a second BatchQueue instance
  exc,                \* history: the exceptions that left call_back or execute()
  lost                \* items whose callback an exception has cut off

aux == <<adding, thr, flushesB, exc, lost>>

vars == <<quota, call_backs, queue, count, last_time_called, clock, uuids,
          inflight, stack, added, log, responses, add_ret, aux>>

\* --------------------------------------------------------------- helpers
Min(a, b) == IF a < b THEN a ELSE b
Max(a, b) == IF a > b THEN a ELSE b
Range(s) == { s[i] : i \in 1..Len(s) }
Front(s) == SubSeq(s, 1, Len(s) - 1)
Last(s) == s[Len(s)]

RECURSIVE Concat(_)
Concat(ss) == IF ss = <<>> THEN <<>> ELSE Head(ss) \o Concat(Tail(ss))

SubmitEv(batch, auto, at) ==
  [type |-> "submit", batch |-> batch, auto |-> auto, at |-> at,
   cb |-> None, id |-> None, req |-> None]
FailEv(batch, auto, at, req) ==
  [type |-> "fail", batch |-> batch, auto |-> auto, at |-> at,
   cb |-> None, id |-> None, req |-> req]
InvokeEv(cb, id, req) ==
  [type |-> "invoke", batch |-> <<>>, auto |-> FALSE, at |-> None,
   cb |-> cb, id |-> id, req |-> req]

IsSubmit(e) == e.type = "submit"
IsInvoke(e) == e.type = "invoke"
IsManual(e) == e.type = "submit" /\ ~e.auto
IsAuto(e) == e.type = "submit" /\ e.auto
Submits == SelectSeq(log, IsSubmit)
Invokes == SelectSeq(log, IsInvoke)
NumManual == Len(SelectSeq(log, IsManual))
NumAuto == Len(SelectSeq(log, IsAuto))

\* ----------------------------------------------------------- rate_limited
\* min_interval = 1.0 / float(max_per_second), in ticks
min_interval == TicksPerSecond \div MaxPerSecond

\* left_to_wait = min_interval - (time.clock() - last_time_called[0])
left_to_wait == min_interval - (clock - last_time_called)

\* the clock when func starts: after time.sleep(left_to_wait) if it is > 0
StartTime == IF left_to_wait > 0 THEN clock + left_to_wait ELSE clock

\* ------------------------------------------------------------ BatchQueue
\* if not request_id: request_id = str(uuid.uuid4())
Falsy(rid) == rid = None
Uuid(n) == UuidBase + n

\* self.call_backs[request_id] = callback
Register(cbs, rid, cb) ==
  [x \in DOMAIN cbs \cup {rid} |-> IF x = rid THEN cb ELSE cbs[x]]

\* mutants of the dequeue loop: one without the quota limit, one that reads
\* the head of the queue without removing it
DequeueAll(i, q, batch) == << << >>, batch \o q >>
DequeuePeek(i, q, batch) == << q, batch \o SubSeq(q, 1, Min(i, Len(q))) >>

\* for _ in range(self.quota): if qsize() == 0: break; get(); batch.add(...)
RECURSIVE DequeueLoop(_, _, _)
DequeueLoop(i, q, batch) ==
  IF i = 0 \/ Len(q) = 0 THEN <<q, batch>>
  ELSE DequeueLoop(i - 1, Tail(q), Append(batch, Head(q)))

\* mutants of the trigger: the comparison made against the counter before
\* its increment, and > in place of ==
TriggersOffByOne(c) == c + 1 = quota
TriggersAbove(c) == c > quota

\* if self.count == self.quota
Triggers(c) == c = quota

\* a thread that is in neither execute() nor call_back
Idle ==
  [pc |-> "idle", auto |-> FALSE, at |-> None, i |-> 0, batch |-> << >>,
   req |-> None, id |-> None, tmp |-> 0]

Init ==
  /\ quota \in 1..MaxQuota
  /\ call_backs = << >>
  /\ queue = << >>
  /\ count = 0
  /\ last_time_called = 0
  /\ clock = 0
  /\ uuids = 0
  /\ inflight = {}
  /\ stack = << >>
  /\ added = << >>
  /\ log = << >>
  /\ responses = 0
  /\ add_ret = None
  /\ adding = << >>
  /\ thr = [t \in 1..NumThreads |-> Idle]
  /\ flushesB = << >>
  /\ exc = << >>
  /\ lost = {}

\* add(request, callback, request_id): the k-th call brings request k and
\* callback k
Add(rid) ==
  /\ Len(added) < MaxAdds
  /\ LET k == Len(added) + 1
         request_id == IF Falsy(rid) THEN Uuid(uuids + 1) ELSE rid
     IN /\ uuids' = IF Falsy(rid) THEN uuids + 1 ELSE uuids
        /\ call_backs' = Register(call_backs, request_id, k)
        /\ queue' = Append(queue, <<k, request_id>>)
        /\ added' = Append(added, [req |-> k, cb |-> k, given |-> rid, id |-> request_id])
        /\ add_ret' = None
  /\ UNCHANGED <<quota, count, last_time_called, clock, inflight, stack, log, responses, aux>>

\* execute() up to the point where batch.execute() is entered: the wait of
\* the decorator, the dequeue loop, the submission.  `under` is the caller's
\* frame (call_back, when the flush is automatic); `fly` the items in flight.
ExecuteEnter(auto, under, fly) ==
  LET t == StartTime
      r == DequeueLoop(quota, queue, << >>)
  IN /\ clock' = t
     /\ queue' = r[1]
     /\ inflight' = fly \cup Range(r[2])
     /\ log' = Append(log, SubmitEv(r[2], auto, t))
     /\ stack' = stack \o under \o << [kind |-> "execute", req |-> None, id |-> None] >>

\* the producer calls execute(); its calls are sequential, each one made
\* after the previous one has returned
Execute ==
  /\ NumManual < MaxFlushes
  /\ stack = << >>
  /\ ExecuteEnter(FALSE, << >>, inflight)
  /\ UNCHANGED <<quota, call_backs, count, last_time_called, uuids, added, responses, add_ret, aux>>

\* an exception leaves call_back (there is no try in call_back, execute or
\* the decorator) and reaches the transport that called it.  `cut` are the
\* items whose callback the raise itself skips.  Either the transport keeps
\* the exception to itself and goes on delivering, or it lets it through
\* (abort): its delivery loop ends, and the exception unwinds every active
\* frame `stk`, an execute() skipping line 32 and a call_back lines 77-78.
Raise(kind, cut, stk, fly, newlog) ==
  LET frames == { <<stk[i].req, stk[i].id>> :
                    i \in { j \in 1..Len(stk) : stk[j].kind = "call_back" } }
      bottom == IF stk # << >> /\ stk[1].kind = "execute" THEN "producer" ELSE "transport"
  IN /\ log' = newlog
     /\ call_backs' = call_backs
     /\ \E abort \in BOOLEAN :
          IF abort
          THEN /\ exc' = Append(exc, [kind |-> kind, to |-> bottom])
               /\ stack' = << >>
               /\ inflight' = {}
               /\ lost' = lost \cup cut \cup frames \cup fly
          ELSE /\ exc' = Append(exc, [kind |-> kind, to |-> "transport"])
               /\ stack' = stk
               /\ inflight' = fly
               /\ lost' = lost \cup cut

\* mutant of KeepEntry: the entry is deleted once its callback has run
DropEntry(cbs, rid) == [x \in DOMAIN cbs \ {rid} |-> cbs[x]]

\* the registry after lines 77-78: call_back deletes nothing
KeepEntry(cbs, rid) == cbs

\* callback = self.call_backs[request_id]; callback(request_id, response, exception)
Invoke(req, id, stk, fly) ==
  IF id \in DOMAIN call_backs
  THEN /\ log' = Append(log, InvokeEv(call_backs[id], id, req))
       /\ call_backs' = KeepEntry(call_backs, id)
       /\ stack' = stk
       /\ inflight' = fly
       /\ UNCHANGED <<exc, lost>>
  ELSE Raise("KeyError", {}, stk, fly, log)

\* call_back(request_id, response, exception); `fails` says whether the
\* batch.execute() of the flush it triggers raises
CallBack(req, id, fly, fails) ==
  /\ responses' = responses + 1
  /\ LET c == count + 1 IN
       IF Triggers(c)
       THEN /\ count' = 0
            /\ IF fails
               THEN LET r == DequeueLoop(quota, queue, << >>) IN
                      /\ clock' = StartTime
                      /\ queue' = r[1]
                      /\ Raise("SubmissionFailure", {<<req, id>>} \cup Range(r[2]), stack, fly,
                               Append(log, FailEv(r[2], TRUE, StartTime, req)))
               ELSE /\ ExecuteEnter(TRUE, << [kind |-> "call_back", req |-> req, id |-> id] >>, fly)
                    /\ UNCHANGED <<call_backs, exc, lost>>
       ELSE /\ count' = c
            /\ Invoke(req, id, stack, fly)
            /\ UNCHANGED <<queue, clock>>
  /\ UNCHANGED <<quota, last_time_called, uuids, added, add_ret, adding, thr, flushesB>>

\* the transport calls call_back(request_id, response, exception) for an item in flight
Deliver(item) ==
  /\ item \in inflight
  /\ CallBack(item[1], item[2], inflight \ {item}, FALSE)

\* batch.execute() returns to the innermost execute(): the decorator records
\* the time, and a call_back that was waiting for it goes on to lines 77-78
Return ==
  /\ stack # << >>
  /\ last_time_called' = clock
  /\ LET rest == Front(stack) IN
       IF rest # << >> /\ Last(rest).kind = "call_back"
       THEN Invoke(Last(rest).req, Last(rest).id, Front(rest), inflight)
       ELSE /\ stack' = rest
            /\ UNCHANGED <<log, call_backs, inflight, exc, lost>>
  /\ UNCHANGED <<quota, queue, count, clock, uuids, added, responses, add_ret, adding, thr, flushesB>>

\* time passes
Tick ==
  /\ clock < MaxClock
  /\ clock' = clock + 1
  /\ UNCHANGED <<quota, call_backs, queue, count, last_time_called, uuids,
                 inflight, stack, added, log, responses, add_ret, aux>>

Next ==
  \/ \E rid \in {None} \cup (1..MaxUserIds) : Add(rid)
  \/ Execute
  \/ \E item \in inflight : Deliver(item)
  \/ Return
  \/ Tick

Spec == Init /\ [][Next]_vars

\* ------------------------------------------------- the scripted producer
\* N calls of add(), then one call of execute(), then nothing more from the
\* producer; the transport delivers every response of every batch.
ScriptAdd(rid) == NumManual = 0 /\ Add(rid)
ScriptFlush == NumManual = 0 /\ Execute

NextLive ==
  \/ \E rid \in {None} \cup (1..MaxUserIds) : ScriptAdd(rid)
  \/ ScriptFlush
  \/ \E item \in inflight : Deliver(item)
  \/ Return
  \/ Tick

SpecLive ==
  Init /\ [][NextLive]_vars /\ WF_vars(\E item \in inflight : Deliver(item))

\* ------------------------------------------- add(), statement by statement
\* mutant of AddOrder: the request is put on the queue before its callback
\* is registered
AddOrderSwapped == <<"enqueue", "register">>

\* line 99 (register the callback), then line 102 (put on the queue)
AddOrder == <<"register", "enqueue">>

AddStmt(name, a) ==
  IF name = "register"
  THEN call_backs' = Register(call_backs, a.id, a.cb) /\ queue' = queue
  ELSE queue' = Append(queue, <<a.req, a.id>>) /\ call_backs' = call_backs

\* add() up to and including its first statement on the shared state
AddBegin(rid) ==
  /\ adding = << >>
  /\ Len(added) < MaxAdds
  /\ LET k == Len(added) + 1
         request_id == IF Falsy(rid) THEN Uuid(uuids + 1) ELSE rid
         a == [req |-> k, cb |-> k, given |-> rid, id |-> request_id]
     IN /\ uuids' = IF Falsy(rid) THEN uuids + 1 ELSE uuids
        /\ AddStmt(AddOrder[1], a)
        /\ adding' = << a >>
  /\ UNCHANGED <<quota, count, last_time_called, clock, inflight, stack, log, responses,
                 added, add_ret, thr, flushesB, exc, lost>>

\* the second statement of add(), and its return
AddEnd ==
  /\ adding # << >>
  /\ AddStmt(AddOrder[2], adding[1])
  /\ added' = Append(added, adding[1])
  /\ add_ret' = None
  /\ adding' = << >>
  /\ UNCHANGED <<quota, count, last_time_called, clock, uuids, inflight, stack, log,
                 responses, thr, flushesB, exc, lost>>

NextSteps ==
  \/ \E rid \in {None} \cup (1..MaxUserIds) : AddBegin(rid)
  \/ AddEnd
  \/ Execute
  \/ \E item \in inflight : Deliver(item)
  \/ Return

SpecSteps == Init /\ [][NextSteps]_vars

\* ------------------------------------------------ a second BatchQueue
\* @rate_limited(1) decorates the function execute once, in the class body:
\* every instance calls the same rate_limited_function, with the same
\* last_time_called cell.  B is a second instance, never added to: its
\* execute() waits, finds its queue empty, hands its empty batch to the
\* transport, which has nothing to deliver, and returns.
ExecuteB ==
  /\ Len(flushesB) < MaxFlushes
  /\ stack = << >>
  /\ clock' = StartTime
  /\ last_time_called' = StartTime
  /\ flushesB' = Append(flushesB, [called |-> clock, at |-> StartTime])
  /\ UNCHANGED <<quota, call_backs, queue, count, uuids, inflight, stack, added, log,
                 responses, add_ret, adding, thr, exc, lost>>

NextTwo == Next \/ ExecuteB

SpecTwo == Init /\ [][NextTwo]_vars

\* ------------------------------------------- a response nobody asked for
\* the transport calls call_back with a request id that was never registered
\* (generated ids start at UuidBase + 1, callers' ids are below UuidBase)
UnknownId == UuidBase

DeliverUnknown ==
  /\ exc = << >>
  /\ \A i \in 1..Len(stack) : stack[i].id # UnknownId
  /\ CallBack(None, UnknownId, inflight, FALSE)

NextRogue == Next \/ DeliverUnknown

SpecRogue == Init /\ [][NextRogue]_vars

\* --------------------------------------- a batch the transport refuses
\* batch.execute() raises instead of submitting.  Called by the producer,
\* execute() has dequeued its batch and lets the exception through, line 32
\* skipped.
ExecuteFails ==
  /\ exc = << >>
  /\ NumManual < MaxFlushes
  /\ stack = << >>
  /\ LET t == StartTime
         r == DequeueLoop(quota, queue, << >>)
     IN /\ clock' = t
        /\ queue' = r[1]
        /\ log' = Append(log, FailEv(r[2], FALSE, t, None))
        /\ exc' = Append(exc, [kind |-> "SubmissionFailure", to |-> "producer"])
        /\ lost' = lost \cup Range(r[2])
  /\ UNCHANGED <<quota, call_backs, count, last_time_called, uuids, inflight, stack, added,
                 responses, add_ret, adding, thr, flushesB>>

\* the same inside the execute() that call_back calls
DeliverFails(item) ==
  /\ exc = << >>
  /\ item \in inflight
  /\ Triggers(count + 1)
  /\ CallBack(item[1], item[2], inflight \ {item}, TRUE)

NextFail ==
  \/ Next
  \/ ExecuteFails
  \/ \E item \in inflight : DeliverFails(item)

SpecFail == Init /\ [][NextFail]_vars

\* ------------------------------ execute() and call_back on several threads
\* Each thread runs its call one statement at a time; Queue.qsize(),
\* Queue.get() and Queue.put() are atomic, self.count += 1 is a read and a
\* write.  The transport returns from batch.execute() at once and calls
\* call_back on any idle thread.
InExecute(t) == thr[t].pc \in {"wait", "check", "get", "submit"}

\* a thread calls execute() for the producer
TFlush(t) ==
  /\ thr[t].pc = "idle"
  /\ NumManual + Cardinality({ u \in 1..NumThreads : InExecute(u) /\ ~thr[u].auto }) < MaxFlushes
  /\ thr' = [thr EXCEPT ![t] = [Idle EXCEPT !.pc = "wait"]]
  /\ UNCHANGED <<quota, call_backs, queue, count, last_time_called, clock, uuids, inflight,
                 stack, added, log, responses, add_ret, adding, flushesB, exc, lost>>

\* lines 27-30: the wait of the decorator; then batch = BatchHttpRequest(...)
TWait(t) ==
  /\ thr[t].pc = "wait"
  /\ clock' = StartTime
  /\ thr' = [thr EXCEPT ![t].pc = "check", ![t].at = StartTime,
                        ![t].i = quota, ![t].batch = << >>]
  /\ UNCHANGED <<quota, call_backs, queue, count, last_time_called, uuids, inflight,
                 stack, added, log, responses, add_ret, adding, flushesB, exc, lost>>

\* lines 113-115: the next round of the loop, and its test of qsize()
TCheck(t) ==
  /\ thr[t].pc = "check"
  /\ thr' = [thr EXCEPT ![t].pc = IF thr[t].i = 0 \/ Len(queue) = 0 THEN "submit" ELSE "get"]
  /\ UNCHANGED <<quota, call_backs, queue, count, last_time_called, clock, uuids, inflight,
                 stack, added, log, responses, add_ret, adding, flushesB, exc, lost>>

\* lines 116-117: self.queue.get() blocks while the queue is empty
TGet(t) ==
  /\ thr[t].pc = "get"
  /\ queue # << >>
  /\ queue' = Tail(queue)
  /\ thr' = [thr EXCEPT ![t].pc = "check", ![t].i = thr[t].i - 1,
                        ![t].batch = Append(thr[t].batch, Head(queue))]
  /\ UNCHANGED <<quota, call_backs, count, last_time_called, clock, uuids, inflight,
                 stack, added, log, responses, add_ret, adding, flushesB, exc, lost>>

\* line 119 and line 32; an automatic flush returns into call_back, line 77
TSubmit(t) ==
  /\ thr[t].pc = "submit"
  /\ inflight' = inflight \cup Range(thr[t].batch)
  /\ log' = Append(log, SubmitEv(thr[t].batch, thr[t].auto, thr[t].at))
  /\ last_time_called' = clock
  /\ thr' = [thr EXCEPT ![t] = IF thr[t].auto
                               THEN [thr[t] EXCEPT !.pc = "cb", !.batch = << >>, !.i = 0]
                               ELSE Idle]
  /\ UNCHANGED <<quota, call_backs, queue, count, clock, uuids,
                 stack, added, responses, add_ret, adding, flushesB, exc, lost>>

\* the transport calls call_back for an item in flight
TResponse(t, item) ==
  /\ thr[t].pc = "idle"
  /\ item \in inflight
  /\ inflight' = inflight \ {item}
  /\ responses' = responses + 1
  /\ thr' = [thr EXCEPT ![t] = [Idle EXCEPT !.pc = "load", !.req = item[1], !.id = item[2]]]
  /\ UNCHANGED <<quota, call_backs, queue, count, last_time_called, clock, uuids,
                 stack, added, log, add_ret, adding, flushesB, exc, lost>>

\* line 72, the read of self.count
TLoad(t) ==
  /\ thr[t].pc = "load"
  /\ thr' = [thr EXCEPT ![t].pc = "store", ![t].tmp = count]
  /\ UNCHANGED <<quota, call_backs, queue, count, last_time_called, clock, uuids, inflight,
                 stack, added, log, responses, add_ret, adding, flushesB, exc, lost>>

\* line 72, the write of self.count
TStore(t) ==
  /\ thr[t].pc = "store"
  /\ count' = thr[t].tmp + 1
  /\ thr' = [thr EXCEPT ![t].pc = "cmp"]
  /\ UNCHANGED <<quota, call_backs, queue, last_time_called, clock, uuids, inflight,
                 stack, added, log, responses, add_ret, adding, flushesB, exc, lost>>

\* line 73
TCmp(t) ==
  /\ thr[t].pc = "cmp"
  /\ thr' = [thr EXCEPT ![t].pc = IF Triggers(count) THEN "reset" ELSE "cb"]
  /\ UNCHANGED <<quota, call_backs, queue, count, last_time_called, clock, uuids, inflight,
                 stack, added, log, responses, add_ret, adding, flushesB, exc, lost>>

\* lines 74-75: the reset, and the call of execute()
TReset(t) ==
  /\ thr[t].pc = "reset"
  /\ count' = 0
  /\ thr' = [thr EXCEPT ![t].pc = "wait", ![t].auto = TRUE]
  /\ UNCHANGED <<quota, call_backs, queue, last_time_called, clock, uuids, inflight,
                 stack, added, log, responses, add_ret, adding, flushesB, exc, lost>>

\* lines 77-78
TInvoke(t) ==
  /\ thr[t].pc = "cb"
  /\ log' = Append(log, InvokeEv(call_backs[thr[t].id], thr[t].id, thr[t].req))
  /\ call_backs' = KeepEntry(call_backs, thr[t].id)
  /\ thr' = [thr EXCEPT ![t] = Idle]
  /\ UNCHANGED <<quota, queue, count, last_time_called, clock, uuids, inflight,
                 stack, added, responses, add_ret, adding, flushesB, exc, lost>>

NextThreads ==
  \/ \E rid \in {None} \cup (1..MaxUserIds) : Add(rid)
  \/ \E t \in 1..NumThreads :
       \/ TFlush(t)
       \/ TWait(t)
       \/ TCheck(t)
       \/ TGet(t)
       \/ TSubmit(t)
       \/ \E item \in inflight : TResponse(t, item)
       \/ TLoad(t)
       \/ TStore(t)
       \/ TCmp(t)
       \/ TReset(t)
       \/ TInvoke(t)

SpecThreads == Init /\ [][NextThreads]_vars

\* ---------------------------------------------------------------- claims
AddedItems == [i \in 1..Len(added) |-> <<added[i].req, added[i].id>>]
Batches == [i \in 1..Len(Submits) |-> Submits[i].batch]
Submitted == Concat(Batches)
InvokedAs(k) == { i \in 1..Len(Invokes) : Invokes[i].cb = k /\ Invokes[i].id = added[k].id }
Handled(k) == \E i \in 1..Len(Invokes) : Invokes[i].req = k

\* C1: the first execute() on a fresh queue, after N add() calls, hands the
\* transport the first min(N, quota) items in add order and leaves the other
\* max(N - quota, 0) in the queue, in order.
C1_FirstFlush ==
  [][ (log = << >> /\ log' # << >>) =>
        LET n == Len(added)
            m == Min(n, quota)
        IN /\ IsManual(log'[1])
           /\ log'[1].batch = SubSeq(AddedItems, 1, m)
           /\ queue' = SubSeq(AddedItems, m + 1, n)
           /\ Len(queue') = Max(n - quota, 0) ]_vars

C1_Witness ==
  /\ Len(log) = 1 /\ IsManual(log[1]) /\ responses = 0
  /\ Len(added) > quota
  /\ Len(log[1].batch) = quota
  /\ queue # << >>

\* C2: with one response per submitted item, every callback registered by
\* add() is invoked at most once, and exactly once with its own request id
\* once the response to its request has been handled.
C2_ExactlyOnce ==
  \A k \in 1..Len(added) :
    /\ Cardinality(InvokedAs(k)) <= 1
    /\ Handled(k) => Cardinality(InvokedAs(k)) = 1

\* C3: the number of responses is quota times the number of automatic
\* flushes plus the counter, the counter staying below quota; a response
\* that brings the counter to quota resets it and flushes once, and no other
\* step flushes automatically.
C3_Pipelining ==
  /\ [](responses = quota * NumAuto + count /\ count \in 0..(quota - 1))
  /\ [][ IF responses' = responses + 1
         THEN IF count + 1 = quota
              THEN count' = 0 /\ NumAuto' = NumAuto + 1
              ELSE count' = count + 1 /\ NumAuto' = NumAuto
         ELSE count' = count /\ NumAuto' = NumAuto ]_vars

C3_Witness ==
  /\ quota = 2 /\ NumAuto = 1 /\ responses = 3 /\ count = 1

\* C4: the batches submitted so far, concatenated in submission order, are a
\* prefix of the items in add order, and no request is in two batches.
C4_FifoAcrossBatches ==
  LET s == Submitted
      n == Len(s)
  IN /\ n <= Len(added)
     /\ s = SubSeq(AddedItems, 1, n)
     /\ \A i, j \in 1..n : i # j => s[i][1] # s[j][1]

C4_Witness ==
  /\ quota = 2 /\ Len(Submits) = 2
  /\ IsManual(Submits[1]) /\ Len(Submits[1].batch) = 2
  /\ IsAuto(Submits[2]) /\ Len(Submits[2].batch) = 1
  /\ Submits[2].batch[1][1] = 3

\* C5: execute() on an empty queue makes no call to the transport: no batch
\* handed to the transport is empty.
C5_NoEmptyBatch ==
  \A i \in 1..Len(Submits) : Submits[i].batch # << >>

\* C6: the flush body never starts less than 1/max_per_second after its
\* previous start.
C6_MinGap ==
  \A i \in 1..(Len(Submits) - 1) : Submits[i + 1].at - Submits[i].at >= min_interval

\* C7: once the producer has made its single call of execute(), the queue
\* eventually empties and every added request has been submitted.
C7_SelfPipelining ==
  (NumManual = 1) ~> (queue = << >> /\ Len(Submitted) = Len(added))

C7_Witness ==
  /\ NumManual = 1 /\ NumAuto >= 1
  /\ Len(added) = 3 /\ queue = << >> /\ Len(Submitted) = 3 /\ inflight = {}

\* C8: at most quota requests are in flight.
C8_AtMostQuotaInFlight ==
  Cardinality(inflight) <= quota

\* C9: add() with a request id already in the registry changes neither the
\* registry nor the queue.
C9_DuplicateRejected ==
  [][ (Len(added') = Len(added) + 1 /\ Last(added').id \in DOMAIN call_backs) =>
        (call_backs' = call_backs /\ queue' = queue) ]_vars

\* C10: add() returns the request id under which it registered the callback.
C10_AddReturnsId ==
  added # << >> => add_ret = Last(added).id

\* C13: between operations the counter is in 0..quota-1; it moves by one
\* response at a time, and the step that would bring it to quota sets it to
\* 0 and is the step that flushes.
C13_CounterRange ==
  /\ [](count \in 0..(quota - 1))
  /\ [][ count' # count =>
           \/ count' = count + 1 /\ count' < quota /\ NumAuto' = NumAuto
           \/ count' = 0 /\ count + 1 = quota /\ NumAuto' = NumAuto + 1 ]_vars

C13_Witness ==
  /\ quota = 2 /\ count = quota - 1 /\ NumAuto >= 1

\* C15: while call_back is inside the execute() it has triggered, the
\* callback of its own response has already been invoked.
C15_CallbackBeforeFlush ==
  \A i \in 1..Len(stack) : stack[i].kind = "call_back" => Handled(stack[i].req)

\* C17: the counter and the number of automatic flushes are the remainder and
\* the quotient by quota of the number of responses received, however the
\* requests were split into batches.
C17_TotalOnly ==
  LET answered == Len(added) - Len(queue) - Cardinality(inflight)
  IN /\ count = answered % quota
     /\ NumAuto = answered \div quota

C17_Witness ==
  /\ quota = 2 /\ Len(Submits) = 3
  /\ IsManual(Submits[1]) /\ Len(Submits[1].batch) = 1
  /\ IsManual(Submits[2]) /\ Len(Submits[2].batch) = 2
  /\ IsAuto(Submits[3])
  /\ Len(Invokes) = 1 /\ Invokes[1].req = 1
  /\ responses = 2

\* C18: no step removes an entry of the registry.
C18_RegistryGrows ==
  [][ \A id \in DOMAIN call_backs : id \in DOMAIN call_backs' ]_vars

C18_Witness ==
  /\ Len(Invokes) = Len(added) /\ Len(added) = MaxAdds
  /\ \A i \in 1..Len(Invokes) : Invokes[i].id \in DOMAIN call_backs

\* C14: every request id on the queue, and every request id in flight, has
\* an entry in the registry, also between the two statements of add().
C14_QueuedIsRegistered ==
  /\ \A i \in 1..Len(queue) : queue[i][2] \in DOMAIN call_backs
  /\ \A item \in inflight : item[2] \in DOMAIN call_backs

C14_Witness ==
  /\ adding # << >> /\ adding[1].id \in DOMAIN call_backs
  /\ queue = << >> /\ inflight # {} /\ responses >= 1

\* C11: a flush of B starts when B's own pacing allows it: at the time of
\* the call, or 1/max_per_second after B's previous flush (after time 0 for
\* the first), whichever is later, whatever the other instance has done.
C11_PerInstancePacing ==
  \A i \in 1..Len(flushesB) :
    flushesB[i].at =
      Max(flushesB[i].called,
          (IF i = 1 THEN 0 ELSE flushesB[i - 1].at) + min_interval)

\* C12: a response for an unknown request id cuts off no callback: the
\* other responses in flight are still delivered and the call_backs that
\* are running still invoke their callbacks.
C12_UnknownIdIsolated ==
  lost = {}

Fails == SelectSeq(log, LAMBDA e : e.type = "fail")

\* C16: a failed submission reaches the caller of execute() as an exception;
\* the items of the failed batch are neither on the queue nor in flight, the
\* items behind them are still queued in add order, and a response that had
\* been delivered to call_back has had its callback invoked.
C16_SubmissionFailure ==
  LET f == Fails IN
  /\ Len(exc) = Len(f)
  /\ \A i \in 1..Len(f) : \A j \in 1..Len(f[i].batch) :
       /\ f[i].batch[j] \notin Range(queue)
       /\ f[i].batch[j] \notin inflight
  /\ queue = SubSeq(AddedItems, Len(added) - Len(queue) + 1, Len(added))
  /\ \A i \in 1..Len(f) : f[i].auto => Handled(f[i].req)

\* C19: no execute() waits in Queue.get() for an item to appear, none takes
\* more than quota items, and no item is taken twice.
C19_NonBlockingDequeue ==
  LET taken == Submitted \o Concat([t \in 1..NumThreads |-> thr[t].batch])
  IN /\ \A t \in 1..NumThreads : thr[t].pc = "get" => queue # << >>
     /\ \A t \in 1..NumThreads : Len(thr[t].batch) <= quota
     /\ \A i, j \in 1..Len(taken) : i # j => taken[i] # taken[j]

\* C20: when no call is running and the responses received are k * quota,
\* k automatic flushes have been made and the counter is 0.
C20_NoLostCompletion ==
  ((\A t \in 1..NumThreads : thr[t].pc = "idle") /\ responses % quota = 0) =>
    (NumAuto = responses \div quota /\ count = 0)

====
